---- MODULE Spec2Model ----
(***************************************************************************)
(* State-machine model of the two scripts of the RAG workshop repository:  *)
(*   scripts/evaluate-rag.py   the RAGAS evaluation pipeline (main and the *)
(*                             five functions it calls), and               *)
(*   scripts/setup-bedrock.py  the provisioning script (main and the five  *)
(*                             functions it calls).                        *)
(* Library calls (datasets.Dataset.from_dict, ragas.evaluate, pandas       *)
(* mean/std, boto3 clients) are modelled by their documented contracts;    *)
(* whatever the contract leaves open is a nondeterministic choice.         *)
(***************************************************************************)
EXTENDS Integers, Sequences, FiniteSets

VARIABLES
    \* ---- scripts/evaluate-rag.py ----
    pc,         \* position of main(): the next call, or how main ended
    file,       \* outputs/evaluation_data.json: None or the JSON mapping
    data,       \* what load_evaluation_data returned
    dataset,    \* what prepare_dataset returned
    results,    \* what run_evaluation returned
    modes,      \* how each metric capability behaved in the evaluate call
    quality,    \* per-sample input of the metric capabilities' scores
    evalCalls,  \* number of calls of ragas.evaluate made so far
    evalError,  \* TRUE when the evaluate call itself raised
    artifact,   \* outputs/evaluation_results.json
    summary,    \* the metrics summary printed by print_summary
    table,      \* the per-sample table printed by print_summary
    error,      \* the exception that escaped main, or NoError
    \* ---- scripts/setup-bedrock.py ----
    spc,        \* position of main(): the next call, or how main ended
    run,        \* which run of the setup script this is
    cloud,      \* the AWS account: its id and the resources it holds
    account_id, \* local of main
    role_arn,   \* local of main
    aoss_arn,   \* local of main
    s3_bucket,  \* local of main
    created,    \* the resources the current run created
    allExisted, \* TRUE when the three resources existed as the run began
    fault,      \* TRUE when an AWS call of the run failed for another reason
    lastReport  \* what the previous completed run reported

evalVars  == <<pc, file, data, dataset, results, modes, quality, evalCalls,
               evalError, artifact, summary, table, error>>
setupVars == <<spc, run, cloud, account_id, role_arn, aoss_arn, s3_bucket,
               created, allExisted, fault, lastReport>>
vars      == <<evalVars, setupVars>>

(***************************************************************************)
(* Bounds of the model.                                                    *)
(***************************************************************************)
MaxLen   == 2   \* longest input sequence
MaxScore == 2   \* scores are the levels 0..MaxScore, in units of 1/MaxScore
MaxRuns  == 2   \* runs of the setup script

\* Python's None, and a value that is not None
None == [ none |-> TRUE ]
Some(x) == [ val |-> x ]

\* a float is NaN or the exact rational num/den
NaN == [ nan |-> TRUE ]
Float(n, d) == [ num |-> n, den |-> d ]

\* no exception
NoError == "None"

(***************************************************************************)
(* evaluate-rag.py: constants                                              *)
(***************************************************************************)
\* run_evaluation: the configured metric list
metrics ==
    << "faithfulness", "answer_relevancy", "context_precision",
       "context_recall", "context_entity_recall", "answer_similarity",
       "answer_correctness" >>

\* print_summary: the columns it reports
metrics_cols ==
    << "faithfulness", "answer_relevancy", "context_precision",
       "context_recall", "answer_correctness" >>

\* evaluate(..., raise_exceptions=False)
raise_exceptions_on == TRUE
raise_exceptions == FALSE

Range(s) == { s[i] : i \in 1..Len(s) }
MetricNames == Range(metrics)
MetricIndex(m) == CHOOSE i \in 1..Len(metrics) : metrics[i] = m

InputKeys == << "questions", "answers", "contexts", "ground_truths" >>
TextValues == { "a", "b" }

\* dict.get(key, [])
Get(d, k) == IF k \in DOMAIN d THEN d[k] ELSE << >>

(***************************************************************************)
(* prepare_dataset                                                         *)
(***************************************************************************)
\* Dataset.from_dict: the columns must all have the same length
ColumnsAligned(cols) ==
    \A k1, k2 \in DOMAIN cols : Len(cols[k1]) = Len(cols[k2])

\* the mapping prepare_dataset hands to Dataset.from_dict
DatasetColumns_crossed(d) ==
    [ question     |-> Get(d, "questions"),
      answer       |-> Get(d, "questions"),
      contexts     |-> Get(d, "contexts"),
      ground_truth |-> Get(d, "ground_truths") ]
DatasetColumns(d) ==
    [ question     |-> Get(d, "questions"),
      answer       |-> Get(d, "answers"),
      contexts     |-> Get(d, "contexts"),
      ground_truth |-> Get(d, "ground_truths") ]

\* len(dataset)
NumRows(ds) == Len(ds.question)

(***************************************************************************)
(* run_evaluation: ragas.evaluate                                          *)
(***************************************************************************)
Modes == { "ok", "raises", "flaky" }

\* whether metric capability of mode md raises on sample i
Raises(md, i) == md = "raises" \/ (md = "flaky" /\ i % 2 = 1)

\* the score a metric capability gives sample i when it does not raise
Score(m, q, i) == Float((q[i] + MetricIndex(m)) % (MaxScore + 1), MaxScore)

\* evaluate(dataset, metrics, raise_exceptions): the result, or None when a
\* metric's exception is raised out of the call
evaluate(ds, ms, md, q, raise_exc) ==
    LET n == NumRows(ds)
        failed == \E j \in 1..Len(ms) : \E i \in 1..n : Raises(md[ms[j]], i)
    IN  IF raise_exc /\ failed
        THEN None
        ELSE Some([ m \in Range(ms) |->
                      [ i \in 1..n |->
                          IF Raises(md[m], i) THEN NaN ELSE Score(m, q, i) ] ])

(***************************************************************************)
(* print_summary: pandas                                                   *)
(***************************************************************************)
\* results.to_pandas().columns
Columns(res, ds) == DOMAIN ds \cup DOMAIN res

IsNum(x) == x # NaN

\* sum of the numerators, and of their squares
RECURSIVE SumSeq(_)
SumSeq(s) == IF s = << >> THEN 0 ELSE Head(s).num + SumSeq(Tail(s))

RECURSIVE SumSqSeq(_)
SumSqSeq(s) ==
    IF s = << >> THEN 0 ELSE Head(s).num * Head(s).num + SumSqSeq(Tail(s))

\* Series.dropna
DropNa(col) == SelectSeq(col, IsNum)

\* Series.fillna(0)
FillNa0(col) ==
    [ i \in 1..Len(col) |-> IF IsNum(col[i]) THEN col[i] ELSE Float(0, MaxScore) ]

\* Series.mean(): skips NaN; NaN of no value
mean_nan_as_zero(col) ==
    IF Len(col) = 0 THEN NaN
    ELSE Float(SumSeq(FillNa0(col)), Len(col) * MaxScore)
mean(col) ==
    LET xs == DropNa(col)
    IN  IF Len(xs) = 0 THEN NaN
        ELSE Float(SumSeq(xs), Len(xs) * MaxScore)

\* Series.std(): skips NaN, ddof = 1; represented by its square (the sample
\* variance); NaN of fewer than two values
std(col) ==
    LET xs == DropNa(col)
        k  == Len(xs)
    IN  IF k < 2 THEN NaN
        ELSE Float(k * SumSqSeq(xs) - SumSeq(xs) * SumSeq(xs),
                   k * (k - 1) * MaxScore * MaxScore)

\* DataFrame.round(4): the nearest multiple of 1/10000 (half to even);
\* NaN stays NaN
Round4(x) ==
    IF x = NaN THEN NaN
    ELSE LET q == (x.num * 10000) \div x.den
             r == (x.num * 10000) % x.den
         IN  IF 2 * r < x.den THEN Float(q, 10000)
             ELSE IF 2 * r > x.den THEN Float(q + 1, 10000)
             ELSE IF q % 2 = 0 THEN Float(q, 10000) ELSE Float(q + 1, 10000)

(***************************************************************************)
(* evaluate-rag.py: the input files                                        *)
(***************************************************************************)
KeySet == Range(InputKeys)

\* every sequence of at most MaxLen values
AllColumns == UNION { [ 1..n -> TextValues ] : n \in 0..MaxLen }

\* one column of each length
CanonColumn(n) == [ i \in 1..n |-> IF i % 2 = 1 THEN "a" ELSE "b" ]
CanonColumns == { CanonColumn(n) : n \in 0..MaxLen }

\* the JSON mappings whose keys are among the four and whose values are in cols
FilesOver(cols) == UNION { [ K -> cols ] : K \in SUBSET KeySet }

(***************************************************************************)
(* evaluate-rag.py: main, one action per call                              *)
(***************************************************************************)
\* data = load_evaluation_data(); if data is None: ... return
load_evaluation_data ==
    /\ pc = "load"
    /\ IF file = None
       THEN /\ data' = None
            /\ pc' = "returned_no_data"
       ELSE /\ data' = file
            /\ pc' = "prepare"
    /\ UNCHANGED <<file, dataset, results, modes, quality, evalCalls,
                   evalError, artifact, summary, table, error>>

\* dataset = prepare_dataset(data)
prepare_dataset ==
    /\ pc = "prepare"
    /\ LET cols == DatasetColumns(data.val)
       IN  IF ColumnsAligned(cols)
           THEN /\ dataset' = Some(cols)
                /\ pc' = "evaluate"
                /\ error' = error
           ELSE /\ dataset' = dataset
                /\ pc' = "raised"
                /\ error' = "ArrowInvalid"
    /\ UNCHANGED <<file, data, results, modes, quality, evalCalls,
                   evalError, artifact, summary, table>>

\* results = run_evaluation(dataset); if results is None: return
\* the evaluate call returns: metric failures are handled as raise_exceptions says
run_evaluation_returns ==
    /\ pc = "evaluate"
    /\ \E md \in [ MetricNames -> Modes ] :
       \E q \in [ 1..NumRows(dataset.val) -> 0..MaxScore ] :
          LET r == evaluate(dataset.val, metrics, md, q, raise_exceptions)
          IN  /\ modes' = md
              /\ quality' = q
              /\ results' = r
              /\ pc' = IF r = None THEN "returned_no_results" ELSE "save"
    /\ evalCalls' = evalCalls + 1
    /\ UNCHANGED <<file, data, dataset, evalError, artifact, summary, table,
                   error>>

\* the evaluate call itself raises (for a reason other than a metric's
\* failure): except Exception: return None
run_evaluation_raises ==
    /\ pc = "evaluate"
    /\ evalError' = TRUE
    /\ results' = None
    /\ pc' = "returned_no_results"
    /\ evalCalls' = evalCalls + 1
    /\ UNCHANGED <<file, data, dataset, modes, quality, artifact, summary,
                   table, error>>

run_evaluation == run_evaluation_returns \/ run_evaluation_raises

\* save_results(results): the file is written
save_results_written ==
    /\ pc = "save"
    /\ artifact' = results
    /\ pc' = "print"
    /\ UNCHANGED <<file, data, dataset, results, modes, quality, evalCalls,
                   evalError, summary, table, error>>

\* save_results(results): open() or json.dump() raises; nothing catches it
save_results_lost(at) ==
    /\ pc = "save"
    /\ artifact' = IF at = "dump" THEN Some("truncated") ELSE None
    /\ results' = None
    /\ error' = "OSError"
    /\ pc' = "raised"
    /\ UNCHANGED <<file, data, dataset, modes, quality, evalCalls,
                   evalError, summary, table>>
save_results_fails(at) ==
    /\ pc = "save"
    /\ artifact' = IF at = "dump" THEN Some("truncated") ELSE artifact
    /\ error' = "OSError"
    /\ pc' = "raised"
    /\ UNCHANGED <<file, data, dataset, results, modes, quality, evalCalls,
                   evalError, summary, table>>

save_results ==
    \/ save_results_written
    \/ \E at \in { "open", "dump" } : save_results_fails(at)

\* the columns print_summary gives a mean and a standard deviation
SummaryColumns(res, ds) ==
    { c \in Range(metrics_cols) : c \in Columns(res, ds) }

\* print_summary(results)
print_summary ==
    /\ pc = "print"
    /\ summary' = Some([ c \in SummaryColumns(results.val, dataset.val) |->
                           [ mean |-> mean(results.val[c]),
                             std  |-> std(results.val[c]) ] ])
    /\ IF Range(metrics_cols) \subseteq Columns(results.val, dataset.val)
       THEN /\ table' = Some([ cols |-> metrics_cols,
                               rows |-> [ i \in 1..NumRows(dataset.val) |->
                                            [ c \in Range(metrics_cols) |->
                                                Round4(results.val[c][i]) ] ] ])
            /\ pc' = "returned"
            /\ error' = error
       ELSE /\ table' = table
            /\ pc' = "raised"
            /\ error' = "KeyError"
    /\ UNCHANGED <<file, data, dataset, results, modes, quality, evalCalls,
                   evalError, artifact>>

(***************************************************************************)
(* Specifications of evaluate-rag.py                                       *)
(***************************************************************************)
SetupIdle ==
    /\ spc = "idle"
    /\ run = 0
    /\ cloud = None
    /\ account_id = None
    /\ role_arn = None
    /\ aoss_arn = None
    /\ s3_bucket = None
    /\ created = {}
    /\ allExisted = FALSE
    /\ fault = FALSE
    /\ lastReport = None

InitEval(files) ==
    /\ pc = "load"
    /\ file \in { None } \cup { Some(f) : f \in files }
    /\ data = None
    /\ dataset = None
    /\ results = None
    /\ modes = [ m \in MetricNames |-> "ok" ]
    /\ quality = << >>
    /\ evalCalls = 0
    /\ evalError = FALSE
    /\ artifact = None
    /\ summary = None
    /\ table = None
    /\ error = NoError
    /\ SetupIdle

\* the whole pipeline, over input files with one column of each length
Init == InitEval(FilesOver(CanonColumns))

Next ==
    \/ load_evaluation_data /\ UNCHANGED setupVars
    \/ prepare_dataset /\ UNCHANGED setupVars
    \/ run_evaluation /\ UNCHANGED setupVars
    \/ save_results /\ UNCHANGED setupVars
    \/ print_summary /\ UNCHANGED setupVars

Spec == Init /\ [][Next]_vars

\* loading and building only, over every input file within the bounds
InitBuild == InitEval(FilesOver(AllColumns))

NextBuild ==
    \/ load_evaluation_data /\ UNCHANGED setupVars
    \/ prepare_dataset /\ UNCHANGED setupVars

SpecBuild == InitBuild /\ [][NextBuild]_vars

(***************************************************************************)
(* Properties of evaluate-rag.py                                           *)
(***************************************************************************)
\* the raw input, as the claims speak of it
HasFile == file # None
InLen(k) == Len(Get(file.val, k))
AllKeysPresent == HasFile /\ DOMAIN file.val = KeySet
EqualLengths == HasFile /\ \A k1, k2 \in KeySet : InLen(k1) = InLen(k2)
ValidInput == AllKeysPresent /\ EqualLengths /\ InLen("questions") >= 1

\* the evaluate call was made and returned a result
Evaluated == evalCalls > 0 /\ ~evalError

\* a result mapping with exactly one entry per configured metric, each with
\* one value per sample
Complete(res) ==
    /\ res # None
    /\ DOMAIN res.val = MetricNames
    /\ \A m \in MetricNames : Len(res.val[m]) = NumRows(dataset.val)

\* the metric list without metric f
Without(ms, f) == SelectSeq(ms, LAMBDA x : x # f)

\* exactly metric f raises on invocation, and no other metric does
OnlyRaises(f) ==
    /\ modes[f] = "raises"
    /\ \A m \in MetricNames \ { f } : modes[m] = "ok"

\* C1: when exactly one configured metric raises on invocation, the result
\* mapping of run_evaluation has exactly one entry per configured metric, the
\* failing metric's entry is unavailable (NaN) for every sample, and every
\* other metric's scores are those of a run without the failing metric.
C1_PartialFailureIsolation ==
    \A f \in MetricNames :
        (Evaluated /\ OnlyRaises(f)) =>
            /\ Complete(results)
            /\ \A i \in 1..NumRows(dataset.val) : results.val[f][i] = NaN
            /\ LET other == evaluate(dataset.val, Without(metrics, f), modes,
                                     quality, raise_exceptions)
               IN  /\ other # None
                   /\ DOMAIN other.val = MetricNames \ { f }
                   /\ \A m \in MetricNames \ { f } :
                          /\ results.val[m] = other.val[m]
                          /\ \A i \in 1..NumRows(dataset.val) :
                                 results.val[m][i] # NaN

C1_Witness ==
    /\ Evaluated
    /\ NumRows(dataset.val) = MaxLen
    /\ OnlyRaises("context_recall")
    /\ Complete(results)
    /\ results.val["context_recall"][1] = NaN
    /\ results.val["faithfulness"][1] # NaN

\* C2 as stated: an input whose four sequences differ in length, or whose
\* common length is 0, fails at prepare_dataset: no dataset is built and
\* evaluate is never called.
InvalidInput == HasFile /\ (~EqualLengths \/ InLen("questions") = 0)

C2_FailFastValidation ==
    (InvalidInput /\ pc \notin { "load", "prepare" }) =>
        /\ pc = "raised"
        /\ error = "ArrowInvalid"
        /\ dataset = None
        /\ evalCalls = 0

\* C3 as stated: for a valid input, main never ends after a successful
\* prepare_dataset without a complete report (one entry per configured
\* metric) having been produced.
Ended == pc \in { "returned_no_data", "returned_no_results", "returned", "raised" }

C3_AlwaysReport ==
    (Ended /\ ValidInput /\ dataset # None) => Complete(results)

\* the samples for which metric c has a score, and sums over them
Available(c) ==
    { i \in 1..NumRows(dataset.val) : results.val[c][i] # NaN }

RECURSIVE SumOver(_, _)
SumOver(S, f) ==
    IF S = {} THEN 0
    ELSE LET i == CHOOSE j \in S : TRUE IN f[i] + SumOver(S \ { i }, f)

\* C4: for every metric print_summary reports, the mean and the standard
\* deviation are those of exactly the K samples whose score is available:
\* the mean is their sum over K, the deviation their sample deviation, and
\* with K = 0 both are the undefined marker NaN, never 0.
C4_AggregationOverAvailable ==
    summary # None =>
        \A c \in DOMAIN summary.val :
            LET K   == Cardinality(Available(c))
                num == [ i \in Available(c) |-> results.val[c][i].num ]
                sq  == [ i \in Available(c) |-> num[i] * num[i] ]
                s1  == SumOver(Available(c), num)
                s2  == SumOver(Available(c), sq)
                mn  == summary.val[c].mean
                sd  == summary.val[c].std
            IN  /\ K = 0 => (mn = NaN /\ sd = NaN)
                /\ K >= 1 =>
                      /\ mn # NaN
                      /\ mn.num * K * MaxScore = s1 * mn.den
                      /\ mn.den = K * MaxScore
                /\ K = 1 => sd = NaN
                /\ K >= 2 =>
                      /\ sd # NaN
                      /\ sd.num * (K * (K - 1) * MaxScore * MaxScore)
                           = (K * s2 - s1 * s1) * sd.den
                      /\ sd.den > 0

C4_Witness ==
    /\ summary # None
    /\ NumRows(dataset.val) = MaxLen
    /\ Cardinality(Available("faithfulness")) = 0
    /\ summary.val["faithfulness"].mean = NaN
    /\ Cardinality(Available("context_recall")) = 1
    /\ summary.val["context_recall"].mean # NaN
    /\ summary.val["context_recall"].mean.num > 0
    /\ Cardinality(Available("answer_correctness")) = MaxLen
    /\ summary.val["answer_correctness"].std # NaN

\* C5 as stated: an input with N >= 1 questions, answers and contexts and
\* no ground_truths key is not an error: the run is not aborted, and the
\* metrics are evaluated over all N samples.
NoGroundTruths ==
    /\ HasFile
    /\ DOMAIN file.val = KeySet \ { "ground_truths" }
    /\ InLen("questions") >= 1
    /\ InLen("answers") = InLen("questions")
    /\ InLen("contexts") = InLen("questions")

C5_MissingKeyDegrades ==
    NoGroundTruths =>
        /\ pc # "raised"
        /\ dataset # None => NumRows(dataset.val) = InLen("questions")

\* C6 as stated: a produced report covers every configured metric, in the
\* summary and in the per-sample table, with one row per sample.
C6_ReportCoversEveryMetric ==
    pc = "returned" =>
        /\ DOMAIN summary.val = MetricNames
        /\ Range(table.val.cols) = MetricNames
        /\ Len(table.val.rows) = NumRows(dataset.val)
        /\ \A i \in 1..Len(table.val.rows) :
               DOMAIN table.val.rows[i] = MetricNames

\* C7: for a valid input (four sequences of equal length N >= 1) the built
\* dataset has N samples, and sample i holds the unmodified values at index
\* i of the four input sequences.
C7_BuilderPreservesSamples ==
    (ValidInput /\ pc \notin { "load", "prepare" }) =>
        /\ dataset # None
        /\ NumRows(dataset.val) = InLen("questions")
        /\ Len(dataset.val.answer) = InLen("questions")
        /\ Len(dataset.val.contexts) = InLen("questions")
        /\ Len(dataset.val.ground_truth) = InLen("questions")
        /\ \A i \in 1..InLen("questions") :
               /\ dataset.val.question[i] = file.val["questions"][i]
               /\ dataset.val.answer[i] = file.val["answers"][i]
               /\ dataset.val.contexts[i] = file.val["contexts"][i]
               /\ dataset.val.ground_truth[i] = file.val["ground_truths"][i]

C7_Witness ==
    /\ ValidInput
    /\ pc = "evaluate"
    /\ InLen("questions") = MaxLen
    /\ file.val["questions"] # file.val["answers"]
    /\ file.val["questions"][1] # file.val["questions"][MaxLen]
    /\ NumRows(dataset.val) = MaxLen

\* C9: when writing the output file fails in save_results, the exception
\* reaches main's caller, and the report computed by run_evaluation is still
\* in memory, complete and unchanged, with no further evaluate call made.
C9_SaveFailureKeepsReport ==
    (pc = "raised" /\ error = "OSError") =>
        /\ Complete(results)
        /\ results = evaluate(dataset.val, metrics, modes, quality,
                              raise_exceptions)
        /\ evalCalls = 1
        /\ Range(metrics_cols) \subseteq Columns(results.val, dataset.val)

C9_Witness ==
    /\ pc = "raised"
    /\ error = "OSError"
    /\ artifact = Some("truncated")
    /\ NumRows(dataset.val) = MaxLen
    /\ Complete(results)
    /\ modes["faithfulness"] = "flaky"
(***************************************************************************)
(* setup-bedrock.py                                                        *)
(***************************************************************************)
AccountIds == { "111111111111", "222222222222" }

\* create_iam_role(role_name="bedrock-kb-role")
DefaultRoleName == "bedrock-kb-role"
\* create_aoss_collection(collection_name="bedrock-kb-collection")
DefaultCollectionName == "bedrock-kb-collection"

\* an ARN as the sequence of its '/'-separated parts
RoleArn(acct, name) == << <<"arn:aws:iam", acct, "role">>, name >>
CollectionArn(acct, name) == << <<"arn:aws:aoss", acct, "collection">>, name >>

\* role_arn.split('/')[-1]
LastPart(arn) == arn[Len(arn)]

\* f"bedrock-kb-documents-{account_id}"
BucketName(acct) == << "bedrock-kb-documents-", acct >>

\* the AWS accounts a run may meet: role and collection present or not, the
\* account holding more collections than one list_collections page or not,
\* the bucket absent, owned by the account, or owned by another account
Clouds ==
    [ account    : AccountIds,
      role       : BOOLEAN,
      policy     : BOOLEAN,
      collection : BOOLEAN,
      crowded    : BOOLEAN,
      bucket     : { "none", "me", "other" } ]

AllExist(c) == c.role /\ c.collection /\ c.bucket = "me"

\* an exception no except clause of the function catches ends the process
\* with a traceback; ClientError in the else branch is sys.exit(1)
Exceptions == { "ClientError", "BotoCoreError" }
AfterError(kind) == IF kind = "ClientError" THEN "exit1" ELSE "crashed"

setupLocals == <<account_id, role_arn, aoss_arn, s3_bucket>>

\* account_id = get_account_id()
get_account_id ==
    /\ spc = "get_account_id"
    /\ \/ /\ account_id' = Some(cloud.account)
          /\ spc' = "create_iam_role"
          /\ fault' = fault
       \/ /\ account_id' = account_id
          /\ spc' = "exit1"
          /\ fault' = TRUE
    /\ UNCHANGED <<run, cloud, role_arn, aoss_arn, s3_bucket, created,
                   allExisted, lastReport>>

\* role_arn = create_iam_role()
create_iam_role ==
    /\ spc = "create_iam_role"
    /\ \/ /\ ~cloud.role
          /\ cloud' = [ cloud EXCEPT !.role = TRUE ]
          /\ created' = created \cup { "role" }
          /\ role_arn' = Some(RoleArn(cloud.account, DefaultRoleName))
          /\ spc' = "attach_policies"
          /\ fault' = fault
       \/ /\ cloud.role
          /\ role_arn' = Some(RoleArn(cloud.account, DefaultRoleName))
          /\ spc' = "attach_policies"
          /\ UNCHANGED <<cloud, created, fault>>
       \/ \E kind \in Exceptions :
          /\ spc' = AfterError(kind)
          /\ fault' = TRUE
          /\ UNCHANGED <<cloud, created, role_arn>>
    /\ UNCHANGED <<run, account_id, aoss_arn, s3_bucket, allExisted,
                   lastReport>>

\* role_name = role_arn.split('/')[-1]; attach_policies(role_name)
attach_policies ==
    /\ spc = "attach_policies"
    /\ \/ /\ cloud.role
          /\ LastPart(role_arn.val) = DefaultRoleName
          /\ cloud' = [ cloud EXCEPT !.policy = TRUE ]
          /\ spc' = "create_aoss_collection"
          /\ fault' = fault
       \/ /\ spc' = "exit1"
          /\ fault' = TRUE
          /\ cloud' = cloud
    /\ UNCHANGED <<run, account_id, role_arn, aoss_arn, s3_bucket, created,
                   allExisted, lastReport>>

\* the collections of the first page of list_collections(): the account's
\* collections, or only some of them when they do not fit in a page
ListPageHasCollection(c) == IF c.crowded THEN BOOLEAN ELSE { TRUE }

\* aoss_arn = create_aoss_collection()
create_aoss_collection ==
    /\ spc = "create_aoss_collection"
    /\ \/ /\ ~cloud.collection
          /\ cloud' = [ cloud EXCEPT !.collection = TRUE ]
          /\ created' = created \cup { "collection" }
          /\ aoss_arn' = Some(CollectionArn(cloud.account, DefaultCollectionName))
          /\ spc' = "create_s3_bucket"
          /\ fault' = fault
       \/ /\ cloud.collection
          /\ \E listed \in ListPageHasCollection(cloud) :
                aoss_arn' = IF listed
                            THEN Some(CollectionArn(cloud.account,
                                                    DefaultCollectionName))
                            ELSE None
          /\ spc' = "create_s3_bucket"
          /\ UNCHANGED <<cloud, created, fault>>
       \/ \E kind \in Exceptions :
          /\ spc' = AfterError(kind)
          /\ fault' = TRUE
          /\ UNCHANGED <<cloud, created, aoss_arn>>
    /\ UNCHANGED <<run, account_id, role_arn, s3_bucket, allExisted,
                   lastReport>>

\* s3_bucket = create_s3_bucket(f"bedrock-kb-documents-{account_id}")
create_s3_bucket ==
    /\ spc = "create_s3_bucket"
    /\ \/ /\ cloud.bucket = "none"
          /\ cloud' = [ cloud EXCEPT !.bucket = "me" ]
          /\ created' = created \cup { "bucket" }
          /\ s3_bucket' = Some(BucketName(account_id.val))
          /\ spc' = "summary"
          /\ fault' = fault
       \/ /\ cloud.bucket = "me"
          /\ s3_bucket' = Some(BucketName(account_id.val))
          /\ spc' = "summary"
          /\ UNCHANGED <<cloud, created, fault>>
       \/ /\ cloud.bucket = "other"
          /\ spc' = "exit1"
          /\ UNCHANGED <<cloud, created, s3_bucket, fault>>
       \/ \E kind \in Exceptions :
          /\ spc' = AfterError(kind)
          /\ fault' = TRUE
          /\ UNCHANGED <<cloud, created, s3_bucket>>
    /\ UNCHANGED <<run, account_id, role_arn, aoss_arn, allExisted,
                   lastReport>>

\* the values main prints under "Setup Complete!"
Report == [ role_arn |-> role_arn, aoss_arn |-> aoss_arn, s3_bucket |-> s3_bucket ]

\* main: print the summary
print_setup_summary ==
    /\ spc = "summary"
    /\ spc' = "complete"
    /\ UNCHANGED <<run, cloud, account_id, role_arn, aoss_arn, s3_bucket,
                   created, allExisted, fault, lastReport>>

SetupEnded == spc \in { "complete", "exit1", "crashed" }

\* the script is run again on the same account
main_again ==
    /\ SetupEnded
    /\ run < MaxRuns
    /\ run' = run + 1
    /\ spc' = "get_account_id"
    /\ lastReport' = IF spc = "complete" THEN Some(Report) ELSE lastReport
    /\ account_id' = None
    /\ role_arn' = None
    /\ aoss_arn' = None
    /\ s3_bucket' = None
    /\ created' = {}
    /\ allExisted' = AllExist(cloud)
    /\ fault' = FALSE
    /\ cloud' = cloud

EvalIdle ==
    /\ pc = "idle"
    /\ file = None
    /\ data = None
    /\ dataset = None
    /\ results = None
    /\ modes = [ m \in MetricNames |-> "ok" ]
    /\ quality = << >>
    /\ evalCalls = 0
    /\ evalError = FALSE
    /\ artifact = None
    /\ summary = None
    /\ table = None
    /\ error = NoError

InitSetup ==
    /\ spc = "get_account_id"
    /\ run = 1
    /\ cloud \in { c \in Clouds : c.policy => c.role }
    /\ account_id = None
    /\ role_arn = None
    /\ aoss_arn = None
    /\ s3_bucket = None
    /\ created = {}
    /\ allExisted = AllExist(cloud)
    /\ fault = FALSE
    /\ lastReport = None
    /\ EvalIdle

NextSetup ==
    \/ get_account_id /\ UNCHANGED evalVars
    \/ create_iam_role /\ UNCHANGED evalVars
    \/ attach_policies /\ UNCHANGED evalVars
    \/ create_aoss_collection /\ UNCHANGED evalVars
    \/ create_s3_bucket /\ UNCHANGED evalVars
    \/ print_setup_summary /\ UNCHANGED evalVars
    \/ main_again /\ UNCHANGED evalVars

SpecSetup == InitSetup /\ [][NextSetup]_vars

\* C10 as stated: a run that finds the role, the collection and the bucket
\* already there, and whose AWS calls fail for no other reason, creates
\* nothing, ends with "Setup Complete" and reports a role ARN, a collection
\* ARN and a bucket name that are not None and equal those reported before.
C10_ProvisioningIdempotent ==
    (SetupEnded /\ allExisted /\ ~fault) =>
        /\ spc = "complete"
        /\ created = {}
        /\ role_arn # None
        /\ aoss_arn # None
        /\ s3_bucket # None
        /\ lastReport # None => Report = lastReport.val
====
